---- MODULE Spec2Model ----
(***************************************************************************)
(* Model of the persistence layer of progress-buddy-backend: the class     *)
(* ProgressBuddyDB (database.js) over a better-sqlite3 connection.         *)
(*                                                                         *)
(* The database is the variable db: the three tables, the AUTOINCREMENT    *)
(* counters of sqlite_sequence, and nothing else.  One action per method   *)
(* of the class; every statement is executed synchronously, as the driver  *)
(* does, so a method is one atomic step.  transaction(callback) has        *)
(* positions of its own (BEGIN, the callback's statements, COMMIT or       *)
(* catch/ROLLBACK), with a synchronous and with an async callback; calls   *)
(* records the callers that await an updateGoalProgress call.              *)
(***************************************************************************)
EXTENDS Integers, Sequences, FiniteSets, TLC

VARIABLES
    db,     \* this.db: [activities, logs, goals, seq]
    now,    \* the value CURRENT_TIMESTAMP yields (whole seconds)
    tx,     \* position of a running transaction(callback)
    last,   \* the last completed call: its arguments and what it returned / threw
    calls   \* per caller: the updateGoalProgress call it has made and not yet seen settle

vars == <<db, now, tx, last, calls>>

-----------------------------------------------------------------------------
(* Bounds of the model *)

\* activities ever inserted (AUTOINCREMENT never reuses an id)
MaxActivities == 2
\* logs ever inserted
MaxLogs == 1
\* goals ever inserted
MaxGoals == 2
\* seconds the clock may advance
MaxTime == 1
\* successful statements inside one unit of work
MaxWork == 2
\* callers whose updateGoalProgress calls overlap
MaxCallers == 2

-----------------------------------------------------------------------------
(* Values *)

\* SQL NULL; better-sqlite3 also returns it as JS null
NULL == "<NULL>"

\* ids a caller may name: every id that can exist, and one that never does
ActivityIds == 1..(MaxActivities + 1)
GoalIds == 1..(MaxGoals + 1)

\* a fully filled-in activity
FullActivity ==
    [name |-> "n", description |-> "d", specific |-> "s", measurable |-> "m",
     achievable |-> "a", relevant |-> "r", timebound |-> "t", buddy_email |-> "e"]

\* the required fields only; one optional field is an explicit null, the others
\* are not set (a property that is not set reads as undefined)
MinimalActivity ==
    [name |-> "n2", specific |-> "s2", measurable |-> "m2", timebound |-> "t2",
     description |-> NULL]

\* the activity objects a caller passes: valid ones, one with an empty name, one
\* without a name, one whose timebound is null
ActivityInputs ==
    { FullActivity,
      MinimalActivity,
      [FullActivity EXCEPT !.name = ""],
      [description |-> "d", specific |-> "s", measurable |-> "m", timebound |-> "t"],
      [FullActivity EXCEPT !.timebound = NULL] }

\* the activity objects of the specifications that are not about activities
FewActivityInputs == { FullActivity, [FullActivity EXCEPT !.timebound = NULL] }

LogInputs ==
    { [activity_id |-> a, text |-> "x", metrics |-> "k"] : a \in ActivityIds }
    \cup { [activity_id |-> 1, text |-> "x"],
           [activity_id |-> 1, metrics |-> "k"],
           [text |-> "x"] }

\* the logs of the specification of the whole store
FewLogInputs ==
    { [activity_id |-> a, text |-> "x", metrics |-> "k"] : a \in ActivityIds }
    \cup { [activity_id |-> 1, metrics |-> "k"] }

\* targets, and around each target t the progress values 0, t-1, t, t+1
TargetValues == {0, 2}
ProgressValues == {-1, 0, 1, 2, 3}

\* goals of the first activity with every target, a dated goal of the second, a
\* goal of an activity that never exists, goals without target or activity
GoalInputs ==
    { [activity_id |-> 1, target_value |-> v] : v \in TargetValues }
    \cup { [activity_id |-> 2, target_value |-> 2, target_date |-> "2030-01-01"],
           [activity_id |-> MaxActivities + 1, target_value |-> 2],
           [activity_id |-> 1],
           [target_value |-> 2] }

\* the goals and progress values of the specification of the whole store
FewGoalInputs ==
    { [activity_id |-> a, target_value |-> 2] : a \in ActivityIds }
    \cup { [activity_id |-> 1] }
FewProgressValues == {2}

-----------------------------------------------------------------------------
(* The schema (createTables) *)

\* variant: timebound is declared without NOT NULL
ActivitiesNotNullButTimebound == {"name", "specific", "measurable"}
\* NOT NULL columns of activities, logs, goals
ActivitiesNotNull == {"name", "specific", "measurable", "timebound"}
LogsNotNull == {"activity_id", "text"}
GoalsNotNull == {"activity_id", "target_value"}

\* variant: the pragma is never issued
foreign_keys_OFF == FALSE
\* this.db.pragma('foreign_keys = ON')
foreign_keys == TRUE

EmptyDb ==
    [activities |-> {}, logs |-> {}, goals |-> {},
     seq |-> [activities |-> 0, logs |-> 0, goals |-> 0]]

-----------------------------------------------------------------------------
(* Parameter binding and statement results *)

\* obj.k bound as a statement parameter: undefined and null both bind as NULL
Bind(obj, k) == IF k \in DOMAIN obj THEN obj[k] ELSE NULL

\* a parameter list as a record column -> bound value
Params(obj, columns) == [c \in columns |-> Bind(obj, c)]

\* run() of an INSERT returned { id: lastInsertRowid, changes }
Inserted(d, id) == [db |-> d, ok |-> TRUE, id |-> id, changes |-> 1]

\* run() of an UPDATE or DELETE returned { id, changes }; its id is the rowid of
\* whatever INSERT the connection ran last, which the model does not keep
Changed(d, changes) == [db |-> d, ok |-> TRUE, changes |-> changes]

\* the statement threw: SQLite undoes the statement, run() logs and rethrows
Fail(d, err) == [db |-> d, ok |-> FALSE, err |-> err]

\* the columns declared TEXT or DATE; the others are INTEGER, and the callers of
\* the model pass an integer for them or leave the property unset
TextColumns ==
    {"name", "description", "specific", "measurable", "achievable", "relevant",
     "timebound", "buddy_email", "text", "metrics", "target_date"}

\* the parameter bound for obj.c is NULL
IsNull(obj, c) == c \notin DOMAIN obj \/ (c \in TextColumns /\ obj[c] = NULL)

\* a NOT NULL constraint fails for the row the statement is about to write
NotNullViolated(obj, notnull) == \E c \in notnull : IsNull(obj, c)

-----------------------------------------------------------------------------
(* The statements of the entity-specific methods, as functions of the      *)
(* database d and the clock t                                              *)

ActivityColumns ==
    {"name", "description", "specific", "measurable", "achievable", "relevant",
     "timebound", "buddy_email"}

\* variant: two parameters of the list change places
createActivityParamsSwapped(activity) ==
    [Params(activity, ActivityColumns) EXCEPT
        !.achievable = Bind(activity, "relevant"),
        !.relevant = Bind(activity, "achievable")]
\* const params = [activity.name, ..., activity.buddy_email], in column order
createActivityParams(activity) == Params(activity, ActivityColumns)

\* INSERT INTO activities (name, ..., buddy_email) VALUES (?, ..., ?)
InsertActivity(d, activity, t) ==
    LET params == createActivityParams(activity)
        id == d.seq.activities + 1
        row == params @@ [id |-> id, completed |-> 0, created_at |-> t, updated_at |-> t]
    IN  IF NotNullViolated(activity, ActivitiesNotNull)
        THEN Fail(d, "SQLITE_CONSTRAINT_NOTNULL")
        ELSE Inserted([d EXCEPT !.activities = @ \cup {row}, !.seq.activities = id], id)

ActivityRows(d, id) == {a \in d.activities : a.id = id}

\* variant: the SET list leaves updated_at out
UpdateActivityKeepsTimestamp(d, id, activity, t) ==
    LET params == Params(activity, ActivityColumns)
        rows == ActivityRows(d, id)
        set(a) == params @@ a
    IN  IF rows = {} THEN Changed(d, 0)
        ELSE IF NotNullViolated(activity, ActivitiesNotNull)
        THEN Fail(d, "SQLITE_CONSTRAINT_NOTNULL")
        ELSE Changed([d EXCEPT !.activities = (@ \ rows) \cup {set(a) : a \in rows}],
                     Cardinality(rows))
\* variant: the fields are validated before the row is looked up
UpdateActivityChecksFirst(d, id, activity, t) ==
    LET params == Params(activity, ActivityColumns)
        rows == ActivityRows(d, id)
        set(a) == params @@ [a EXCEPT !.updated_at = t]
    IN  IF NotNullViolated(activity, ActivitiesNotNull)
        THEN Fail(d, "SQLITE_CONSTRAINT_NOTNULL")
        ELSE Changed([d EXCEPT !.activities = (@ \ rows) \cup {set(a) : a \in rows}],
                     Cardinality(rows))
\* variant: the statement replaces the row, and created_at takes its default again
UpdateActivityResetsCreatedAt(d, id, activity, t) ==
    LET params == Params(activity, ActivityColumns)
        rows == ActivityRows(d, id)
        set(a) == params @@ [a EXCEPT !.created_at = t, !.updated_at = t]
    IN  IF rows = {} THEN Changed(d, 0)
        ELSE IF NotNullViolated(activity, ActivitiesNotNull)
        THEN Fail(d, "SQLITE_CONSTRAINT_NOTNULL")
        ELSE Changed([d EXCEPT !.activities = (@ \ rows) \cup {set(a) : a \in rows}],
                     Cardinality(rows))
\* UPDATE activities SET name = ?, ..., updated_at = CURRENT_TIMESTAMP WHERE id = ?
\* (a constraint is checked on the rows the statement writes: none, if none matches)
UpdateActivity(d, id, activity, t) ==
    LET params == Params(activity, ActivityColumns)
        rows == ActivityRows(d, id)
        set(a) == params @@ [a EXCEPT !.updated_at = t]
    IN  IF rows = {} THEN Changed(d, 0)
        ELSE IF NotNullViolated(activity, ActivitiesNotNull)
        THEN Fail(d, "SQLITE_CONSTRAINT_NOTNULL")
        ELSE Changed([d EXCEPT !.activities = (@ \ rows) \cup {set(a) : a \in rows}],
                     Cardinality(rows))

\* variant: the cascade does not reach the goals
DeleteActivityKeepsGoals(d, id) ==
    LET rows == ActivityRows(d, id)
    IN  Changed([d EXCEPT !.activities = @ \ rows,
                          !.logs = {l \in @ : l.activity_id # id}],
                Cardinality(rows))
\* variant: the cascade removes the logs of every activity
DeleteActivityDropsAllLogs(d, id) ==
    LET rows == ActivityRows(d, id)
        cascade == foreign_keys /\ rows # {}
    IN  Changed([d EXCEPT
                    !.activities = @ \ rows,
                    !.logs = IF cascade THEN {} ELSE @,
                    !.goals = IF cascade THEN {g \in @ : g.activity_id # id} ELSE @],
                Cardinality(rows))
\* DELETE FROM activities WHERE id = ?, with the ON DELETE CASCADE actions of
\* logs.activity_id and goals.activity_id (changes counts the activities only)
DeleteActivity(d, id) ==
    LET rows == ActivityRows(d, id)
        cascade == foreign_keys /\ rows # {}
    IN  Changed([d EXCEPT
                    !.activities = @ \ rows,
                    !.logs = IF cascade THEN {l \in @ : l.activity_id # id} ELSE @,
                    !.goals = IF cascade THEN {g \in @ : g.activity_id # id} ELSE @],
                Cardinality(rows))

\* the FOREIGN KEY (activity_id) REFERENCES activities (id) check of an INSERT
ForeignKeyViolated(d, params) ==
    foreign_keys /\ ActivityRows(d, params.activity_id) = {}

\* variant: logs.activity_id is declared without the FOREIGN KEY
InsertLogUnchecked(d, log, t) ==
    LET params == Params(log, {"activity_id", "text", "metrics"})
        id == d.seq.logs + 1
        row == params @@ [id |-> id, created_at |-> t]
    IN  IF NotNullViolated(log, LogsNotNull)
        THEN Fail(d, "SQLITE_CONSTRAINT_NOTNULL")
        ELSE Inserted([d EXCEPT !.logs = @ \cup {row}, !.seq.logs = id], id)
\* INSERT INTO logs (activity_id, text, metrics) VALUES (?, ?, ?)
InsertLog(d, log, t) ==
    LET params == Params(log, {"activity_id", "text", "metrics"})
        id == d.seq.logs + 1
        row == params @@ [id |-> id, created_at |-> t]
    IN  IF NotNullViolated(log, LogsNotNull)
        THEN Fail(d, "SQLITE_CONSTRAINT_NOTNULL")
        ELSE IF ForeignKeyViolated(d, params)
        THEN Fail(d, "SQLITE_CONSTRAINT_FOREIGNKEY")
        ELSE Inserted([d EXCEPT !.logs = @ \cup {row}, !.seq.logs = id], id)

\* variant: the achieved column defaults to 1
InsertGoalAchieved(d, goal, t) ==
    LET params == Params(goal, {"activity_id", "target_value", "target_date"})
        id == d.seq.goals + 1
        row == params @@ [id |-> id, current_value |-> 0, achieved |-> 1, created_at |-> t]
    IN  IF NotNullViolated(goal, GoalsNotNull)
        THEN Fail(d, "SQLITE_CONSTRAINT_NOTNULL")
        ELSE IF ForeignKeyViolated(d, params)
        THEN Fail(d, "SQLITE_CONSTRAINT_FOREIGNKEY")
        ELSE Inserted([d EXCEPT !.goals = @ \cup {row}, !.seq.goals = id], id)
\* INSERT INTO goals (activity_id, target_value, target_date) VALUES (?, ?, ?)
InsertGoal(d, goal, t) ==
    LET params == Params(goal, {"activity_id", "target_value", "target_date"})
        id == d.seq.goals + 1
        row == params @@ [id |-> id, current_value |-> 0, achieved |-> 0, created_at |-> t]
    IN  IF NotNullViolated(goal, GoalsNotNull)
        THEN Fail(d, "SQLITE_CONSTRAINT_NOTNULL")
        ELSE IF ForeignKeyViolated(d, params)
        THEN Fail(d, "SQLITE_CONSTRAINT_FOREIGNKEY")
        ELSE Inserted([d EXCEPT !.goals = @ \cup {row}, !.seq.goals = id], id)

GoalRows(d, id) == {g \in d.goals : g.id = id}

\* variant: the comparison is strict
AchievedStrict(currentValue, target_value) == currentValue > target_value
\* currentValue >= this.get(...).target_value
Achieved(currentValue, target_value) == currentValue >= target_value

\* variant: the UPDATE has no WHERE clause and writes every goal
UpdateGoalProgressEveryGoal(d, goalId, currentValue) ==
    LET rows == GoalRows(d, goalId)
        row == CHOOSE g \in rows : TRUE
        achieved == Achieved(currentValue, row.target_value)
        set(g) == [g EXCEPT !.current_value = currentValue,
                            !.achieved = IF achieved THEN 1 ELSE 0]
    IN  IF rows = {}
        THEN Fail(d, "TypeError")
        ELSE Changed([d EXCEPT !.goals = {set(g) : g \in @}], Cardinality(d.goals))
\* variant: a later update never takes the achieved flag back
UpdateGoalProgressStickyAchieved(d, goalId, currentValue) ==
    LET rows == GoalRows(d, goalId)
        row == CHOOSE g \in rows : TRUE
        achieved == Achieved(currentValue, row.target_value)
        set(g) == [g EXCEPT !.current_value = currentValue,
                            !.achieved = IF achieved \/ g.achieved = 1 THEN 1 ELSE 0]
    IN  IF rows = {}
        THEN Fail(d, "TypeError")
        ELSE Changed([d EXCEPT !.goals = (@ \ rows) \cup {set(g) : g \in rows}],
                     Cardinality(rows))
\* the body of updateGoalProgress: get() of the goal's target_value, the
\* comparison, then run() of UPDATE goals SET current_value = ?, achieved = ?
UpdateGoalProgress(d, goalId, currentValue) ==
    LET rows == GoalRows(d, goalId)
        row == CHOOSE g \in rows : TRUE
        achieved == Achieved(currentValue, row.target_value)
        set(g) == [g EXCEPT !.current_value = currentValue,
                            !.achieved = IF achieved THEN 1 ELSE 0]
    IN  IF rows = {}
        THEN Fail(d, "TypeError")
        ELSE Changed([d EXCEPT !.goals = (@ \ rows) \cup {set(g) : g \in rows}],
                     Cardinality(rows))

\* run() of UPDATE goals SET current_value = ?, achieved = ? WHERE id = ? alone,
\* with an achieved flag computed earlier
WriteGoalProgress(d, goalId, currentValue, achieved) ==
    LET rows == GoalRows(d, goalId)
        set(g) == [g EXCEPT !.current_value = currentValue,
                            !.achieved = IF achieved THEN 1 ELSE 0]
    IN  Changed([d EXCEPT !.goals = (@ \ rows) \cup {set(g) : g \in rows}],
                Cardinality(rows))

\* variant: the method awaits between its get() and its run()
AwaitsAfterReadInserted == TRUE
\* whether the body of updateGoalProgress gives up control between its get()
\* and its run(): it has no await, and get() and run() are synchronous
AwaitsAfterRead == FALSE

\* the result sets a query ORDER BY created_at DESC may return for these rows:
\* every row once, later created_at first, rows of the same second in any order
NewestFirst(rows) ==
    LET n == Cardinality(rows)
    IN  { s \in [1..n -> rows] :
            /\ \A i, j \in 1..n : i # j => s[i] # s[j]
            /\ \A i, j \in 1..n : i < j => s[i].created_at >= s[j].created_at }

\* SELECT * FROM activities ORDER BY created_at DESC
getAllActivities(d) == NewestFirst(d.activities)

\* SELECT * FROM logs WHERE activity_id = ? ORDER BY created_at DESC
getLogsByActivity(d, activityId) ==
    NewestFirst({l \in d.logs : l.activity_id = activityId})

\* SELECT * FROM goals WHERE activity_id = ? ORDER BY created_at DESC
getGoalsByActivity(d, activityId) ==
    NewestFirst({g \in d.goals : g.activity_id = activityId})

-----------------------------------------------------------------------------
(* The methods.  An action takes the set its caller draws the arguments    *)
(* from.                                                                   *)

\* what the caller gets: the value run() returned, or the error it rethrew
Result(r) == [k \in DOMAIN r \ {"db"} |-> r[k]]

\* no transaction(callback) is running
Idle == [pc |-> "idle"]

\* the callers of the store, and a caller that is not inside a call
Callers == 1..MaxCallers
NoCall == [pc |-> "none"]

\* a method called outside transaction(): its statement runs, the call completes
Return(op, args, r) ==
    /\ tx.pc = "idle"
    /\ db' = r.db
    /\ last' = [op |-> op] @@ args @@ Result(r)
    /\ UNCHANGED <<now, tx, calls>>

\* init(): the connection is open, foreign keys are on, the tables exist and are empty
Init ==
    /\ db = EmptyDb
    /\ now = 0
    /\ tx = Idle
    /\ last = [op |-> "init", ok |-> TRUE]
    /\ calls = [c \in Callers |-> NoCall]

\* time passes: CURRENT_TIMESTAMP has a resolution of one second
Tick ==
    /\ now < MaxTime
    /\ now' = now + 1
    /\ UNCHANGED <<db, tx, last, calls>>

createActivity(activities) ==
    \E activity \in activities :
        LET r == InsertActivity(db, activity, now)
        IN  /\ r.ok => db.seq.activities < MaxActivities
            /\ Return("createActivity", [activity |-> activity], r)

updateActivity(activities) ==
    \E id \in ActivityIds, activity \in activities :
        Return("updateActivity", [id |-> id, activity |-> activity],
               UpdateActivity(db, id, activity, now))

deleteActivity ==
    \E id \in ActivityIds :
        Return("deleteActivity", [id |-> id], DeleteActivity(db, id))

createLog(logs) ==
    \E log \in logs :
        LET r == InsertLog(db, log, now)
        IN  /\ r.ok => db.seq.logs < MaxLogs
            /\ Return("createLog", [log |-> log], r)

createGoal(goals) ==
    \E goal \in goals :
        LET r == InsertGoal(db, goal, now)
        IN  /\ r.ok => db.seq.goals < MaxGoals
            /\ Return("createGoal", [goal |-> goal], r)

updateGoalProgress(values) ==
    \E goalId \in GoalIds, currentValue \in values :
        Return("updateGoalProgress", [goalId |-> goalId, currentValue |-> currentValue],
               UpdateGoalProgress(db, goalId, currentValue))

-----------------------------------------------------------------------------
(* transaction(callback), for a callback that issues run() calls and       *)
(* returns or throws synchronously                                         *)

\* the statements a unit of work issues through run()
WorkStatements ==
    { [sql |-> "INSERT INTO activities", params |-> a] : a \in FewActivityInputs }
    \cup { [sql |-> "INSERT INTO logs", params |-> [activity_id |-> i, text |-> "x"]] :
             i \in {1, MaxActivities + 1} }
    \cup { [sql |-> "INSERT INTO goals", params |-> g] :
             g \in {[activity_id |-> 1, target_value |-> 2], [activity_id |-> 1]} }
    \cup { [sql |-> "DELETE FROM activities", params |-> [id |-> 1]] }

Run(d, stmt, t) ==
    CASE stmt.sql = "INSERT INTO activities" -> InsertActivity(d, stmt.params, t)
      [] stmt.sql = "INSERT INTO logs" -> InsertLog(d, stmt.params, t)
      [] stmt.sql = "INSERT INTO goals" -> InsertGoal(d, stmt.params, t)
      [] stmt.sql = "DELETE FROM activities" -> DeleteActivity(d, stmt.params.id)

WithinCaps(d) ==
    /\ d.seq.activities <= MaxActivities
    /\ d.seq.logs <= MaxLogs
    /\ d.seq.goals <= MaxGoals

\* this.db.exec('BEGIN TRANSACTION'); the callback is entered
transactionBegin ==
    /\ tx.pc = "idle"
    /\ tx' = [pc |-> "callback", snapshot |-> db, writes |-> 0]
    /\ last' = [op |-> "BEGIN", ok |-> TRUE]
    /\ UNCHANGED <<db, now, calls>>

\* the callback runs a statement; a statement that throws ends the callback,
\* which does not catch, and control passes to the catch block of transaction()
callbackRun ==
    /\ tx.pc = "callback"
    /\ tx.writes < MaxWork
    /\ \E stmt \in WorkStatements :
        LET r == Run(db, stmt, now)
        IN  /\ WithinCaps(r.db)
            /\ db' = r.db
            /\ last' = [op |-> "run", stmt |-> stmt] @@ Result(r)
            /\ tx' = IF r.ok THEN [tx EXCEPT !.writes = @ + 1]
                              ELSE [pc |-> "catch", snapshot |-> tx.snapshot,
                                    writes |-> tx.writes, error |-> r.err]
    /\ UNCHANGED <<now, calls>>

\* the callback throws an error of its own
callbackThrow ==
    /\ tx.pc = "callback"
    /\ tx' = [pc |-> "catch", snapshot |-> tx.snapshot, writes |-> tx.writes,
              error |-> "Error"]
    /\ last' = [op |-> "throw", ok |-> FALSE, err |-> "Error"]
    /\ UNCHANGED <<db, now, calls>>

\* the callback returned: this.db.exec('COMMIT'); return result
transactionCommit ==
    /\ tx.pc = "callback"
    /\ tx' = Idle
    /\ last' = [op |-> "transaction", ok |-> TRUE, writes |-> tx.writes]
    /\ UNCHANGED <<db, now, calls>>

\* variant: the catch block rethrows without ROLLBACK
RollbackSkipped(t) == db
\* the database after ROLLBACK: as it was at BEGIN, sqlite_sequence included
Rollback(t) == t.snapshot

\* catch (error) { this.db.exec('ROLLBACK'); throw error; }
transactionCatch ==
    /\ tx.pc = "catch"
    /\ db' = Rollback(tx)
    /\ tx' = Idle
    /\ last' = [op |-> "transaction", ok |-> FALSE, err |-> tx.error,
                writes |-> tx.writes]
    /\ UNCHANGED <<now, calls>>

-----------------------------------------------------------------------------
(* transaction(callback) with an async callback that awaits entity-specific  *)
(* methods.  callback() runs the callback up to its first await and returns  *)
(* a promise; transaction() does not await it.  An async method runs its     *)
(* statement when it is called and turns a throw of run() into a rejected    *)
(* promise, so nothing is thrown inside the try block.                       *)

\* this.db.exec('BEGIN TRANSACTION'); the async callback is entered
asyncBegin ==
    /\ tx.pc = "idle"
    /\ tx' = [pc |-> "entered", snapshot |-> db, writes |-> 0, issued |-> 0,
              committed |-> FALSE, rejected |-> FALSE, error |-> ""]
    /\ last' = [op |-> "BEGIN", ok |-> TRUE]
    /\ UNCHANGED <<db, now, calls>>

\* the callback calls its first method: the statement runs now, inside the
\* transaction, and the callback is suspended at its await
asyncFirstCall ==
    /\ tx.pc = "entered"
    /\ \E stmt \in WorkStatements :
        LET r == Run(db, stmt, now)
        IN  /\ WithinCaps(r.db)
            /\ db' = r.db
            /\ last' = [op |-> "run", stmt |-> stmt] @@ Result(r)
            /\ tx' = [tx EXCEPT !.pc = "suspended",
                                !.issued = @ + 1,
                                !.writes = IF r.ok THEN @ + 1 ELSE @,
                                !.rejected = ~r.ok,
                                !.error = IF r.ok THEN "" ELSE r.err]
    /\ UNCHANGED <<now, calls>>

\* callback() has returned its pending promise: this.db.exec('COMMIT'); return result
asyncCommit ==
    /\ tx.pc = "suspended"
    /\ ~tx.committed
    /\ tx' = [tx EXCEPT !.pc = "resumable", !.committed = TRUE]
    /\ last' = [op |-> "COMMIT", ok |-> TRUE]
    /\ UNCHANGED <<db, now, calls>>

\* the callback resumes after an await that resolved and calls its next method:
\* the statement runs on the connection in autocommit mode
asyncResume ==
    /\ tx.pc = "resumable"
    /\ ~tx.rejected
    /\ tx.issued < MaxWork
    /\ \E stmt \in WorkStatements :
        LET r == Run(db, stmt, now)
        IN  /\ WithinCaps(r.db)
            /\ db' = r.db
            /\ last' = [op |-> "run", stmt |-> stmt] @@ Result(r)
            /\ tx' = [tx EXCEPT !.issued = @ + 1,
                                !.writes = IF r.ok THEN @ + 1 ELSE @,
                                !.rejected = ~r.ok,
                                !.error = IF r.ok THEN "" ELSE r.err]
    /\ UNCHANGED <<now, calls>>

\* the callback ends: it returns, or the await of a rejected method call throws
\* in it; the promise transaction() returned settles
asyncSettle ==
    /\ tx.pc = "resumable"
    /\ tx' = Idle
    /\ last' = IF tx.rejected
               THEN [op |-> "transaction", ok |-> FALSE, err |-> tx.error,
                     writes |-> tx.writes]
               ELSE [op |-> "transaction", ok |-> TRUE, writes |-> tx.writes]
    /\ UNCHANGED <<db, now, calls>>

-----------------------------------------------------------------------------
(* Callers whose updateGoalProgress calls overlap: a caller calls the method *)
(* and awaits the promise it returns; its continuation runs later, after     *)
(* other callers may have made their calls.                                  *)

\* caller c calls updateGoalProgress(goalId, currentValue): the body of the
\* async method runs up to its first await, or to its end when it has none,
\* and the caller holds the promise
callUpdateGoalProgress(c, values) ==
    /\ tx.pc = "idle"
    /\ calls[c].pc = "none"
    /\ \E goalId \in GoalIds, currentValue \in values :
        LET rows == GoalRows(db, goalId)
            args == [goalId |-> goalId, currentValue |-> currentValue]
            r == UpdateGoalProgress(db, goalId, currentValue)
        IN  IF AwaitsAfterRead /\ rows # {}
            THEN /\ calls' = [calls EXCEPT ![c] =
                        [pc |-> "read",
                         target_value |-> (CHOOSE g \in rows : TRUE).target_value] @@ args]
                 /\ last' = [op |-> "get", caller |-> c, ok |-> TRUE] @@ args
                 /\ UNCHANGED db
            ELSE /\ db' = r.db
                 /\ calls' = [calls EXCEPT ![c] = [pc |-> "settled"] @@ args @@ Result(r)]
                 /\ last' = [op |-> "updateGoalProgress", caller |-> c] @@ args @@ Result(r)
    /\ UNCHANGED <<now, tx>>

\* a continuation of caller c runs: the rest of a suspended method body, or the
\* caller's own code after its await, which has the result or the error
continueCaller(c) ==
    /\ tx.pc = "idle"
    /\ calls[c].pc \in {"read", "settled"}
    /\ IF calls[c].pc = "read"
       THEN LET call == calls[c]
                args == [goalId |-> call.goalId, currentValue |-> call.currentValue]
                r == WriteGoalProgress(db, call.goalId, call.currentValue,
                                       Achieved(call.currentValue, call.target_value))
            IN  /\ db' = r.db
                /\ calls' = [calls EXCEPT ![c] = [pc |-> "settled"] @@ args @@ Result(r)]
                /\ last' = [op |-> "updateGoalProgress", caller |-> c] @@ args @@ Result(r)
       ELSE /\ calls' = [calls EXCEPT ![c] = NoCall]
            /\ last' = [op |-> "await", caller |-> c, ok |-> calls[c].ok]
            /\ UNCHANGED db
    /\ UNCHANGED <<now, tx>>

-----------------------------------------------------------------------------
(* Specifications *)

\* the whole store: every entity-specific method, called in any order (within
\* one second)
Next ==
    \/ createActivity(FewActivityInputs)
    \/ updateActivity(FewActivityInputs)
    \/ deleteActivity
    \/ createLog(FewLogInputs)
    \/ createGoal(FewGoalInputs)
    \/ updateGoalProgress(FewProgressValues)

Spec == Init /\ [][Next]_vars

\* the activity methods, over every kind of activity object
NextActivities ==
    \/ Tick
    \/ createActivity(ActivityInputs)
    \/ updateActivity(ActivityInputs)
    \/ deleteActivity

SpecActivities == Init /\ [][NextActivities]_vars

\* the goal methods, over every target and progress value (within one second)
NextGoals ==
    \/ createActivity({FullActivity})
    \/ deleteActivity
    \/ createGoal(GoalInputs)
    \/ updateGoalProgress(ProgressValues)

SpecGoals == Init /\ [][NextGoals]_vars

\* activities updated over time while logs and goals are stored
FrameActivityInputs == { MinimalActivity }
FrameLogInputs == { [activity_id |-> 1, text |-> "x", metrics |-> "k"] }
FrameGoalInputs == { [activity_id |-> 1, target_value |-> 2] }

NextFrame ==
    \/ Tick
    \/ createActivity({FullActivity})
    \/ updateActivity(FrameActivityInputs)
    \/ deleteActivity
    \/ createLog(FrameLogInputs)
    \/ createGoal(FrameGoalInputs)

SpecFrame == Init /\ [][NextFrame]_vars

\* units of work run by transaction()
NextTransaction ==
    \/ Tick
    \/ transactionBegin
    \/ callbackRun
    \/ callbackThrow
    \/ transactionCommit
    \/ transactionCatch

SpecTransaction == Init /\ [][NextTransaction]_vars

\* units of work that await entity-specific methods, run by transaction()
NextAsyncWork ==
    \/ asyncBegin
    \/ asyncFirstCall
    \/ asyncCommit
    \/ asyncResume
    \/ asyncSettle

SpecAsyncWork == Init /\ [][NextAsyncWork]_vars

\* progress updates of callers that overlap, on goals of one activity
CallerGoalInputs == { [activity_id |-> 1, target_value |-> 2] }
CallerValues == {1, 2}

NextCallers ==
    \/ createActivity({FullActivity})
    \/ createGoal(CallerGoalInputs)
    \/ \E c \in Callers : callUpdateGoalProgress(c, CallerValues)
    \/ \E c \in Callers : continueCaller(c)

SpecCallers == Init /\ [][NextCallers]_vars

-----------------------------------------------------------------------------
(* Properties *)

\* this step is a call of method op that completed; last' holds its arguments and
\* its outcome (a step that changes nothing satisfies every [][A]_vars)
Called(op) == last'.op = op /\ now' = now

\* the stored encoding of a boolean column
Stored(b) == IF b THEN 1 ELSE 0

\* C1: after updateGoalProgress(g, v) has completed on an existing goal g, the
\* stored goal has current_value = v and achieved = (v >= target_value), whatever
\* its values were before (so a later, smaller v resets achieved).
C1_ProgressRecomputesAchieved ==
    [][(Called("updateGoalProgress") /\ GoalRows(db, last'.goalId) # {}) =>
          /\ last'.ok
          /\ \A g \in GoalRows(db, last'.goalId) :
                \E h \in GoalRows(db', last'.goalId) :
                    /\ h.current_value = last'.currentValue
                    /\ h.achieved = Stored(last'.currentValue >= g.target_value)]_vars

\* C1 witness: a progress update to one below the target has left the goal not
\* achieved.
C1_Witness ==
    /\ last.op = "updateGoalProgress" /\ last.ok
    /\ \E g \in GoalRows(db, last.goalId) :
          /\ g.current_value = last.currentValue
          /\ g.target_value = last.currentValue + 1 /\ g.achieved = 0

\* C2: when the unit of work of transaction() has thrown, transaction() ends with
\* the activities, logs and goals tables as they were before the call, and throws
\* the error the unit of work threw.
C2_FailedWorkRolledBack ==
    [][(tx.pc = "catch" /\ tx'.pc = "idle") =>
          /\ db'.activities = tx.snapshot.activities
          /\ db'.logs = tx.snapshot.logs
          /\ db'.goals = tx.snapshot.goals
          /\ last'.op = "transaction" /\ ~last'.ok
          /\ last'.err = last.err]_vars

\* C2 witness: a transaction() that failed after a write of its unit of work had
\* succeeded.
C2_Witness ==
    /\ last.op = "transaction" /\ ~last.ok /\ last.writes >= 1
    /\ last.err = "SQLITE_CONSTRAINT_FOREIGNKEY"
    /\ tx.pc = "idle"

\* C3: deleteActivity(a) removes activity a and every log and goal whose
\* activity_id is a, and nothing else.
C3_DeleteCascades ==
    [][Called("deleteActivity") =>
          /\ db'.activities = {x \in db.activities : x.id # last'.id}
          /\ db'.logs = {l \in db.logs : l.activity_id # last'.id}
          /\ db'.goals = {g \in db.goals : g.activity_id # last'.id}]_vars

\* C3 witness: an activity was deleted; a log and a goal had been created and
\* none is left, while another activity is still stored.
C3_Witness ==
    /\ last.op = "deleteActivity" /\ last.changes = 1
    /\ db.seq.logs >= 1 /\ db.logs = {}
    /\ db.seq.goals >= 1 /\ db.goals = {}
    /\ db.activities # {}

\* C4: in every reachable state, every stored log and every stored goal has the
\* activity_id of an activity that is stored.
C4_OwnersExist ==
    /\ \A l \in db.logs : \E a \in db.activities : a.id = l.activity_id
    /\ \A g \in db.goals : \E a \in db.activities : a.id = g.activity_id

\* C4 witness: after an activity was deleted, a log and a goal of another
\* activity are stored.
C4_Witness ==
    /\ last.op = "deleteActivity" /\ last.changes = 1
    /\ db.logs # {} /\ db.goals # {}

\* C5: createLog with an activity_id that is not the id of a stored activity
\* fails and leaves the database as it was; the error is the foreign-key
\* violation (when the log has a text, so that no other constraint fails first).
C5_CreateLogNeedsOwner ==
    [][(/\ Called("createLog")
        /\ "activity_id" \in DOMAIN last'.log
        /\ ActivityRows(db, last'.log.activity_id) = {}) =>
          /\ ~last'.ok
          /\ db' = db
          /\ ~IsNull(last'.log, "text") => last'.err = "SQLITE_CONSTRAINT_FOREIGNKEY"]_vars

\* C5 witness: createLog failed with the foreign-key error for the id of an
\* activity that had been created and deleted.
C5_Witness ==
    /\ last.op = "createLog" /\ ~last.ok
    /\ last.err = "SQLITE_CONSTRAINT_FOREIGNKEY"
    /\ last.log.activity_id <= db.seq.activities

\* C6 (as claimed): updateGoalProgress with a goalId that is not stored fails
\* with a NotFoundError and leaves the database as it was.
C6_MissingGoalIsNotFound ==
    [][(Called("updateGoalProgress") /\ GoalRows(db, last'.goalId) = {}) =>
          /\ ~last'.ok
          /\ last'.err = "NotFoundError"
          /\ db' = db]_vars

\* the required text fields of an activity
RequiredFields == {"name", "specific", "measurable", "timebound"}

\* the activities stored under the id the last call named
Target(d) == ActivityRows(d, last'.id)

\* C7 (as claimed): every successful updateActivity of a stored activity makes
\* its updated_at strictly later than it was.
C7_UpdatedAtStrictlyLater ==
    [][(Called("updateActivity") /\ last'.ok /\ last'.changes = 1) =>
          \A a \in Target(db), b \in Target(db') : b.updated_at > a.updated_at]_vars

\* C7 (amended): every successful updateActivity of a stored activity sets its
\* updated_at to the current second, which is never earlier than the value
\* before (and equal to it when both writes fall in the same second).
C7_UpdatedAtIsNow ==
    [][(Called("updateActivity") /\ last'.ok /\ last'.changes = 1) =>
          /\ Target(db') # {}
          /\ \A a \in Target(db), b \in Target(db') :
                b.updated_at = now /\ b.updated_at >= a.updated_at]_vars

\* C7 witness: an activity updated in a later second than it was created in.
C7_Witness ==
    /\ last.op = "updateActivity" /\ last.ok /\ last.changes = 1
    /\ \E a \in ActivityRows(db, last.id) : a.updated_at > a.created_at

\* C8 (as claimed): every stored activity has a non-empty name, specific,
\* measurable and timebound.
C8_RequiredFieldsNonEmpty ==
    \A a \in db.activities : \A c \in RequiredFields : a[c] # NULL /\ a[c] # ""

\* the object of the last call leaves a required field unset or null
LacksRequired(activity) ==
    \E c \in RequiredFields : c \notin DOMAIN activity \/ activity[c] = NULL

\* C8 (amended): every stored activity has a non-null name, specific, measurable
\* and timebound; a createActivity, or an updateActivity of a stored activity,
\* whose object leaves one of them unset or null fails with the NOT NULL error
\* and leaves the database as it was.  (An empty string is stored.)
C8_RequiredFieldsNotNull ==
    [][/\ \A a \in db'.activities : \A c \in RequiredFields : a[c] # NULL
       /\ (/\ Called("createActivity") \/ (Called("updateActivity") /\ Target(db) # {})
           /\ LacksRequired(last'.activity)) =>
             /\ ~last'.ok
             /\ last'.err = "SQLITE_CONSTRAINT_NOTNULL"
             /\ db' = db]_vars

\* C8 witness: an updateActivity of a stored activity failed for a missing
\* required field.
C8_Witness ==
    /\ last.op = "updateActivity" /\ ~last.ok
    /\ LacksRequired(last.activity)
    /\ ActivityRows(db, last.id) # {}

\* C9: right after a successful createActivity, every result of listActivities
\* holds exactly one record with the returned id; its eight fields are the
\* supplied values (null where none was supplied) and its completed is false.
C9_CreateThenListRoundTrips ==
    (last.op = "createActivity" /\ last.ok) =>
        \A list \in getAllActivities(db) :
            /\ Cardinality({i \in DOMAIN list : list[i].id = last.id}) = 1
            /\ \A i \in DOMAIN list : list[i].id = last.id =>
                  /\ \A c \in ActivityColumns :
                        list[i][c] = IF c \in DOMAIN last.activity
                                     THEN last.activity[c] ELSE NULL
                  /\ list[i].completed = Stored(FALSE)

\* C9 witness: a fully filled-in activity was created next to a stored one.
C9_Witness ==
    /\ last.op = "createActivity" /\ last.ok
    /\ last.activity = FullActivity
    /\ Cardinality(db.activities) = 2

\* C10: updateActivity with an id that is not stored throws nothing, reports 0
\* changes and leaves the database as it was, whatever the fields; with a stored
\* id it reports 1 change whenever it succeeds, and it succeeds whenever the
\* required fields are supplied.
C10_UpdateReportsChanges ==
    [][Called("updateActivity") =>
          IF Target(db) = {}
          THEN last'.ok /\ last'.changes = 0 /\ db' = db
          ELSE /\ last'.ok => last'.changes = 1
               /\ ~LacksRequired(last'.activity) => last'.ok]_vars

\* C10 witness: an updateActivity that named no stored activity, and lacked a
\* required field, reported 0 changes while an activity is stored.
C10_Witness ==
    /\ last.op = "updateActivity" /\ last.ok /\ last.changes = 0
    /\ LacksRequired(last.activity)
    /\ db.activities # {}

\* C11: a stored log never changes (its activity_id, text, metrics and created_at
\* stay as written), and it stops being stored only in a step that is a
\* deleteActivity of its owning activity.
C11_LogsImmutable ==
    [][\A l \in db.logs :
          \/ l \in db'.logs
          \/ /\ \A m \in db'.logs : m.id # l.id
             /\ Called("deleteActivity") /\ last'.id = l.activity_id]_vars

\* C11 witness: a log is stored unchanged after an updateActivity of its owner.
C11_Witness ==
    /\ last.op = "updateActivity" /\ last.ok /\ last.changes = 1
    /\ \E l \in db.logs : l.activity_id = last.id /\ l.text = "x"

\* C16: no entity method changes a stored goal's target_value, activity_id,
\* target_date or created_at; a goal changes at all only in an
\* updateGoalProgress of that goal, which leaves every other goal, every log
\* and every activity as it was; and a goal stops being stored only in a
\* deleteActivity of its owning activity.
C16_GoalFrame ==
    [][/\ \A g \in db.goals :
            \/ \E h \in db'.goals :
                  /\ h.id = g.id
                  /\ h.target_value = g.target_value
                  /\ h.activity_id = g.activity_id
                  /\ h.target_date = g.target_date
                  /\ h.created_at = g.created_at
                  /\ h # g => Called("updateGoalProgress") /\ last'.goalId = g.id
            \/ /\ \A h \in db'.goals : h.id # g.id
               /\ Called("deleteActivity") /\ last'.id = g.activity_id
       /\ Called("updateGoalProgress") =>
            /\ db'.logs = db.logs
            /\ db'.activities = db.activities
            /\ {h.id : h \in db'.goals} = {g.id : g \in db.goals}]_vars

\* C16 witness: a progress update has rewritten one goal while another goal,
\* a log and an activity are stored.
C16_Witness ==
    /\ last.op = "updateGoalProgress" /\ last.ok /\ last.changes = 1
    /\ \E g, h \in db.goals :
          /\ g.id = last.goalId /\ g.current_value = last.currentValue
          /\ h.id # g.id /\ h.current_value = 0
    /\ db.logs # {}

Consistent(g) == g.achieved = Stored(g.current_value >= g.target_value)

\* C17 (as stated): every stored goal satisfies
\* achieved = (current_value >= target_value), never-updated goals included.
C17_EveryGoalConsistent == \A g \in db.goals : Consistent(g)

\* C17 (amended): the goal written by a progress update satisfies
\* achieved = (current_value >= target_value); a goal that does not satisfy it
\* has target_value <= 0, current_value 0 and achieved 0, and either was
\* inserted by createGoal in this step or was stored unchanged before it.
C17_ConsistentOnceUpdated ==
    [][/\ \A g \in db'.goals :
            \/ Consistent(g)
            \/ /\ g.target_value <= 0 /\ g.current_value = 0 /\ g.achieved = 0
               /\ \/ g \in db.goals
                  \/ Called("createGoal") /\ last'.ok /\ last'.id = g.id
       /\ Called("updateGoalProgress") /\ last'.ok =>
            \A g \in GoalRows(db', last'.goalId) : Consistent(g)]_vars

\* C17 witness: a goal with target_value 0 that never received a progress
\* update is stored beside a goal that a progress update has written.
C17_Witness ==
    /\ last.op = "updateGoalProgress" /\ last.ok
    /\ \E g, h \in db.goals :
          /\ g.id = last.goalId /\ g.current_value = last.currentValue /\ Consistent(g)
          /\ h.id # g.id /\ h.target_value = 0 /\ h.achieved = 0 /\ h.current_value = 0

\* C18: updateActivity leaves the id, created_at and completed of its target as
\* they were, and every other activity, every log and every goal unchanged;
\* completed is 0 for every stored activity after every step.
C18_UpdateActivityFrame ==
    [][/\ Called("updateActivity") =>
            /\ \A a \in db.activities :
                  \/ a \in db'.activities
                  \/ /\ a.id = last'.id
                     /\ \E b \in db'.activities :
                           /\ b.id = a.id
                           /\ b.created_at = a.created_at
                           /\ b.completed = a.completed
            /\ Cardinality(db'.activities) = Cardinality(db.activities)
            /\ db'.logs = db.logs
            /\ db'.goals = db.goals
       /\ \A a \in db'.activities : a.completed = 0]_vars

\* C18 witness: an activity has been updated in a later second than it was
\* created in, while another activity, a log and a goal are stored.
C18_Witness ==
    /\ last.op = "updateActivity" /\ last.ok /\ last.changes = 1
    /\ \E a, b \in db.activities :
          /\ a.id = last.id /\ a.updated_at > a.created_at /\ a.name = "n2"
          /\ b.id # a.id
    /\ db.logs # {} /\ db.goals # {}

\* list holds every row of rows exactly once, and a row inserted by a later call
\* (a greater AUTOINCREMENT id) never comes after a row of an earlier call
LaterCallFirst(list, rows) ==
    /\ Len(list) = Cardinality(rows)
    /\ {list[i] : i \in DOMAIN list} = rows
    /\ \A i, j \in DOMAIN list : i < j => list[i].id > list[j].id

\* C12 (as stated): every result of getAllActivities holds every stored activity
\* once with the activity of a later createActivity call never after that of an
\* earlier call; every result of getLogsByActivity(a) and getGoalsByActivity(a)
\* holds exactly the rows whose activity_id is a, in that order, and is the
\* empty sequence when there are none.
C12_ListsLaterCallFirst ==
    /\ \A list \in getAllActivities(db) : LaterCallFirst(list, db.activities)
    /\ \A a \in ActivityIds :
          /\ getLogsByActivity(db, a) # {}
          /\ \A list \in getLogsByActivity(db, a) :
                LaterCallFirst(list, {l \in db.logs : l.activity_id = a})
          /\ getGoalsByActivity(db, a) # {}
          /\ \A list \in getGoalsByActivity(db, a) :
                LaterCallFirst(list, {g \in db.goals : g.activity_id = a})

\* C13 (as stated): a statement of an awaiting unit of work executes before
\* COMMIT has been issued, and when a statement of the unit of work has failed
\* the store is, once the unit of work has ended, as it was at BEGIN.
C13_AwaitedWorkIsAtomic ==
    [][/\ (tx.pc \in {"entered", "resumable"} /\ tx'.pc # "idle"
            /\ tx'.issued = tx.issued + 1)
          => ~tx.committed
       /\ (tx.pc = "resumable" /\ tx'.pc = "idle" /\ ~last'.ok)
          => db' = tx.snapshot]_vars

\* the UPDATE of caller c's call executes in this step
Writes(c) == calls'[c].pc = "settled" /\ calls[c].pc # "settled" /\ calls'[c].ok

\* C14 (as stated): the write of an updateGoalProgress call is a step of its
\* own, taken by a call that has done its read in an earlier step.
C14_WriteIsSeparateStep ==
    [][\A c \in Callers : Writes(c) => calls[c].pc = "read"]_vars

\* C14 (amended): no call is ever between its read and its write; the write
\* executes in the step of the call itself, with the achieved flag computed
\* from the target_value stored at the start of that step, and no other
\* caller's call moves in that step.
C14_ReadAndWriteAreOneStep ==
    [][\A c \in Callers :
          /\ calls'[c].pc # "read"
          /\ Writes(c) =>
                /\ calls[c].pc = "none"
                /\ \A o \in Callers \ {c} : calls'[o] = calls[o]
                /\ \A g \in GoalRows(db', calls'[c].goalId) :
                      \E h \in GoalRows(db, g.id) :
                          g.achieved = Stored(calls'[c].currentValue >= h.target_value)]_vars

\* C14 witness: two callers have called updateGoalProgress on the same goal with
\* different values, and neither has yet seen its call settle.
C14_Witness ==
    \E c, o \in Callers :
        /\ c # o
        /\ calls[c].pc = "settled" /\ calls[o].pc = "settled"
        /\ calls[c].ok /\ calls[o].ok
        /\ calls[c].goalId = calls[o].goalId
        /\ calls[c].currentValue # calls[o].currentValue

\* every caller has an updateGoalProgress call on goal g that has completed
AllCompletedOn(cs, g) ==
    \A c \in Callers : cs[c].pc = "settled" /\ cs[c].ok /\ cs[c].goalId = g.id

\* C15: the step in which a call writes stores that call's value together with
\* the achieved flag of that value, no other step changes a stored goal, and
\* once every caller's call on a goal has completed the goal satisfies
\* achieved = (current_value >= target_value) with the value of one of the calls.
C15_LastWriterWins ==
    [][/\ \A c \in Callers : Writes(c) =>
            \A g \in GoalRows(db', calls'[c].goalId) :
                /\ g.current_value = calls'[c].currentValue
                /\ g.achieved = Stored(calls'[c].currentValue >= g.target_value)
       /\ (\A c \in Callers : ~Writes(c)) => \A g \in db.goals : g \in db'.goals
       /\ \A g \in db'.goals : AllCompletedOn(calls', g) =>
            /\ Consistent(g)
            /\ \E c \in Callers : g.current_value = calls'[c].currentValue]_vars

\* C15 witness: every caller's call on one goal has completed, one of them with
\* a value that reaches the target, and the goal holds the pair of the call
\* made last, which does not reach it.
C15_Witness ==
    /\ last.op = "updateGoalProgress" /\ last.ok
    /\ \E g \in db.goals :
          /\ AllCompletedOn(calls, g)
          /\ \E c \in Callers : calls[c].currentValue >= g.target_value
          /\ g.current_value = last.currentValue /\ g.achieved = 0

====
